---- MODULE Spec2Model ----
(***************************************************************************)
(* Model of lib/tokenizer.js: the styled-components aware CSS tokenizer.   *)
(* The source text is a sequence of one-character strings, offsets are     *)
(* 0-based as in the JavaScript, tokens are tuples as in the JavaScript:   *)
(*   <<"space", text>>, <<c, <<c>>, start>>, <<kind, text, start, end>>.   *)
(***************************************************************************)
EXTENDS Integers, Sequences, FiniteSets, TLC

VARIABLES css, interpolations, ignore, pos, buffer, returned, currentToken,
          call, out, driver

vars == <<css, interpolations, ignore, pos, buffer, returned, currentToken,
          call, out, driver>>

(***************************************************************************)
(* Character codes (tokenizer.js:6-27).                                    *)
(***************************************************************************)
SINGLE_QUOTE == "'"
DOUBLE_QUOTE == "\""
BACKSLASH == "\\"
SLASH == "/"
NEWLINE == "\n"
SPACE == " "
FEED == "\f"
TAB == "\t"
CR == "\r"
OPEN_SQUARE == "["
CLOSE_SQUARE == "]"
OPEN_PARENTHESES == "("
CLOSE_PARENTHESES == ")"
OPEN_CURLY == "{"
CLOSE_CURLY == "}"
SEMICOLON == ";"
ASTERISK == "*"
COLON == ":"
AT == "@"
DOLLAR_SIGN == "$"

\* charCodeAt / charAt outside the text: NaN / "" (equal to no character)
NoChar == "<none>"
\* `return;` of nextToken, and the value of currentToken before the first token
Undefined == <<>>
\* no exception was thrown by the call
NoError == <<>>
\* Array.prototype.find found no element
NoInterpolation == [start |-> -1, end |-> -1]

\* let length = css.length
length == Len(css)

Min(S) == CHOOSE x \in S : \A y \in S : x <= y

\* css.charCodeAt(i), css.charAt(i)
CharAt(i) == IF i >= 0 /\ i < length THEN css[i + 1] ELSE NoChar

\* css.slice(from, to) for 0 <= from
Slice(from, to) == SubSeq(css, from + 1, IF to < length THEN to ELSE length)

\* css.indexOf(c, from) for a one-character c
IndexOf(c, from) ==
    LET S == {i \in 0..(length - 1) : i >= from /\ css[i + 1] = c}
    IN  IF S = {} THEN -1 ELSE Min(S)

\* css.indexOf('*/', from)
IndexOfCommentEnd(from) ==
    LET S == {i \in 0..(length - 2) :
                 i >= from /\ css[i + 1] = ASTERISK /\ css[i + 2] = SLASH}
    IN  IF S = {} THEN -1 ELSE Min(S)

\* the five characters of the whitespace case and of the do-while condition
IsSpace(c) == c \in {SPACE, NEWLINE, TAB, CR, FEED}

\* the seven characters of the control-token case
IsControl(c) == c \in {OPEN_SQUARE, CLOSE_SQUARE, OPEN_CURLY, CLOSE_CURLY,
                       COLON, SEMICOLON, CLOSE_PARENTHESES}

\* RE_AT_END = /[\t\n\f\r "#'()/;[\\\]{}]/g matches at offset i
AtEndAt(i) == CharAt(i) \in {TAB, NEWLINE, FEED, CR, SPACE, DOUBLE_QUOTE, "#",
                             SINGLE_QUOTE, OPEN_PARENTHESES, CLOSE_PARENTHESES,
                             SLASH, SEMICOLON, OPEN_SQUARE, BACKSLASH,
                             CLOSE_SQUARE, OPEN_CURLY, CLOSE_CURLY}

\* RE_WORD_END = /[\t\n\f\r !"#'():;@[\\\]{}]|\/(?=\*)/g matches at offset i
WordEndAt(i) ==
    \/ CharAt(i) \in {TAB, NEWLINE, FEED, CR, SPACE, "!", DOUBLE_QUOTE, "#",
                      SINGLE_QUOTE, OPEN_PARENTHESES, CLOSE_PARENTHESES, COLON,
                      SEMICOLON, AT, OPEN_SQUARE, BACKSLASH, CLOSE_SQUARE,
                      OPEN_CURLY, CLOSE_CURLY}
    \/ CharAt(i) = SLASH /\ CharAt(i + 1) = ASTERISK

\* RE_HEX_ESCAPE = /[\da-f]/i
IsHex(c) == c \in {"0", "1", "2", "3", "4", "5", "6", "7", "8", "9",
                   "a", "b", "c", "d", "e", "f",
                   "A", "B", "C", "D", "E", "F"}

\* RE_BAD_BRACKET without the slash in its class
BadBracketNoSlash(content) ==
    \E i \in 1..(Len(content) - 1) :
        /\ content[i] \notin {NEWLINE, CR}
        /\ content[i + 1] \in {NEWLINE, DOUBLE_QUOTE, SINGLE_QUOTE,
                               OPEN_PARENTHESES, BACKSLASH}

\* RE_BAD_BRACKET = /.[\n"'(/\\]/ : `.` is any character but a line terminator
BadBracket(content) ==
    \E i \in 1..(Len(content) - 1) :
        /\ content[i] \notin {NEWLINE, CR}
        /\ content[i + 1] \in {NEWLINE, DOUBLE_QUOTE, SINGLE_QUOTE,
                               OPEN_PARENTHESES, SLASH, BACKSLASH}

(***************************************************************************)
(* Interpolation lookups (the three interpolations.find calls).            *)
(***************************************************************************)
FirstInterpolation(I) ==
    IF I = {} THEN NoInterpolation ELSE interpolations[Min(I)]

\* interpolations.find((item) => item.start < next && next < item.end)
FindAround(next) ==
    FirstInterpolation({i \in 1..Len(interpolations) :
        interpolations[i].start < next /\ next < interpolations[i].end})

\* interpolations.find((item) => item.start === pos)
FindAt(p) ==
    FirstInterpolation({i \in 1..Len(interpolations) :
        interpolations[i].start = p})

\* interpolations.find((item) => pos <= item.start && item.start <= next + 1)
FindWithin(p, next) ==
    FirstInterpolation({i \in 1..Len(interpolations) :
        p <= interpolations[i].start /\ interpolations[i].start <= next + 1})

(***************************************************************************)
(* Results of one run of the classifier (the switch of nextToken):         *)
(* the token, the value of `next` assigned to pos before pos++, the        *)
(* recent-word buffer, and the exception thrown by unclosed(), if any.     *)
(***************************************************************************)
Produced(tok, next, buf) ==
    [raised |-> NoError, tok |-> tok, next |-> next, buffer |-> buf]

\* unclosed(what) reporting the end of input in place of pos
UnclosedAtEnd(what, p, buf) ==
    [raised |-> <<what, length>>, tok |-> Undefined, next |-> p, buffer |-> buf]

\* unclosed(what): throw input.error('Unclosed ' + what, pos)
Unclosed(what, p, buf) ==
    [raised |-> <<what, p>>, tok |-> Undefined, next |-> p, buffer |-> buf]

\* the escape test without the loop: one backslash before the candidate
EscapedNoParity(escapePos) == CharAt(escapePos - 1) = BACKSLASH

\* while (css.charCodeAt(escapePos - 1) === BACKSLASH) { escaped = !escaped }
RECURSIVE Escaped(_)
Escaped(escapePos) ==
    IF CharAt(escapePos - 1) = BACKSLASH THEN ~Escaped(escapePos - 1) ELSE FALSE

\* the whitespace case without its loop: one character per token
SpaceEndNoLoop(next) == next

\* do { next += 1 } while (code is whitespace): first offset after the run
RECURSIVE SpaceEnd(_)
SpaceEnd(next) == IF IsSpace(CharAt(next)) THEN SpaceEnd(next + 1) ELSE next

\* case NEWLINE, SPACE, TAB, CR, FEED
ScanSpace(p, buf) ==
    LET next == SpaceEnd(p + 1)
    IN  Produced(<<"space", Slice(p, next)>>, next - 1, buf)

\* a control token whose case leaves the cursor one short (pos++ undone)
ScanControlStuck(p, buf) == Produced(<<CharAt(p), <<CharAt(p)>>, p>>, p - 1, buf)

\* case OPEN_SQUARE .. CLOSE_PARENTHESES
ScanControl(p, buf) == Produced(<<CharAt(p), <<CharAt(p)>>, p>>, p, buf)

\* one pass of the url do-while body up to the `next === -1` test
UrlCandidate(next) ==
    LET found == IndexOf(CLOSE_PARENTHESES, next + 1)
        interpolation == FindAround(found)
    IN  IF interpolation # NoInterpolation
        THEN IndexOf(CLOSE_PARENTHESES, interpolation.end)
        ELSE found

\* the url do-while loop: offset of the closing parenthesis, or -1
RECURSIVE UrlClose(_)
UrlClose(next) ==
    LET cand == UrlCandidate(next)
    IN  IF cand = -1 THEN -1
        ELSE IF Escaped(cand) THEN UrlClose(cand)
        ELSE cand

\* the condition of the `if` at tokenizer.js:148-157
IsUrlBody(prev, n) ==
    /\ prev = <<"u", "r", "l">>
    /\ n \notin {SINGLE_QUOTE, DOUBLE_QUOTE, SPACE, NEWLINE, TAB, FEED, CR}

\* the raw-URL branch
ScanUrl(p, buf, permissive) ==
    LET close == UrlClose(p)
    IN  IF close = -1
        THEN IF permissive
             THEN Produced(<<"brackets", Slice(p, p + 1), p, p>>, p, buf)
             ELSE Unclosed("bracket", p, buf)
        ELSE Produced(<<"brackets", Slice(p, close + 1), p, close>>, close, buf)

\* the else branch of case OPEN_PARENTHESES
ScanBrackets(p, buf) ==
    LET next == IndexOf(CLOSE_PARENTHESES, p + 1)
        content == Slice(p, next + 1)
    IN  IF next = -1 \/ BadBracket(content)
        THEN Produced(<<"(", <<"(">>, p>>, p, buf)
        ELSE Produced(<<"brackets", content, p, next>>, next, buf)

\* case OPEN_PARENTHESES
ScanParen(p, buf, permissive) ==
    LET prev == IF Len(buf) > 0 THEN buf[Len(buf)][2] ELSE <<>>
        popped == IF Len(buf) > 0 THEN SubSeq(buf, 1, Len(buf) - 1) ELSE buf
    IN  IF IsUrlBody(prev, CharAt(p + 1))
        THEN ScanUrl(p, popped, permissive)
        ELSE ScanBrackets(p, popped)

\* the quote do-while loop: offset of the closing quote, or -1
RECURSIVE QuoteClose(_, _)
QuoteClose(quote, next) ==
    LET found == IndexOf(quote, next + 1)
    IN  IF found = -1 THEN -1
        ELSE IF Escaped(found) THEN QuoteClose(quote, found)
        ELSE found

\* the permissive string cut after the quote itself (next = pos)
ScanQuoteOneChar(p, buf, permissive) ==
    LET close == QuoteClose(CharAt(p), p)
    IN  IF close = -1
        THEN IF permissive
             THEN Produced(<<"string", Slice(p, p + 1), p, p>>, p, buf)
             ELSE Unclosed("string", p, buf)
        ELSE Produced(<<"string", Slice(p, close + 1), p, close>>, close, buf)

\* case SINGLE_QUOTE, DOUBLE_QUOTE
ScanQuote(p, buf, permissive) ==
    LET close == QuoteClose(CharAt(p), p)
    IN  IF close = -1
        THEN IF permissive
             THEN Produced(<<"string", Slice(p, p + 2), p, p + 1>>, p + 1, buf)
             ELSE Unclosed("string", p, buf)
        ELSE Produced(<<"string", Slice(p, close + 1), p, close>>, close, buf)

\* case AT
ScanAt(p, buf) ==
    LET M == {i \in (p + 1)..(length - 1) : AtEndAt(i)}
        next == IF M = {} THEN length - 1 ELSE Min(M) - 1
    IN  Produced(<<"at-word", Slice(p, next + 1), p, next>>, next, buf)

\* while (css.charCodeAt(next + 1) === BACKSLASH): last backslash of the run
RECURSIVE BackslashRunEnd(_)
BackslashRunEnd(next) ==
    IF CharAt(next + 1) = BACKSLASH THEN BackslashRunEnd(next + 1) ELSE next

\* while (RE_HEX_ESCAPE.test(css.charAt(next + 1))) next += 1
RECURSIVE HexRunEnd(_)
HexRunEnd(next) == IF IsHex(CharAt(next + 1)) THEN HexRunEnd(next + 1) ELSE next

\* case BACKSLASH
ScanBackslash(p, buf) ==
    LET run == BackslashRunEnd(p)
        escape == (run - p) % 2 = 0
        code == CharAt(run + 1)
        next == IF escape /\ code \notin {SLASH, SPACE, NEWLINE, TAB, CR, FEED}
                THEN IF IsHex(CharAt(run + 1))
                     THEN LET h == HexRunEnd(run + 1)
                          IN  IF CharAt(h + 1) = SPACE THEN h + 1 ELSE h
                     ELSE run + 1
                ELSE run
    IN  Produced(<<"word", Slice(p, next + 1), p, next>>, next, buf)

\* the span read as half-open: the token stops one short of interpolation.end
ScanDollarHalfOpen(p, buf, cur) ==
    LET interpolation == FindAt(p)
    IN  IF interpolation # NoInterpolation
        THEN LET tok == <<"word", Slice(p, interpolation.end), p,
                          interpolation.end - 1>>
             IN  Produced(tok, interpolation.end - 1, Append(buf, tok))
        ELSE Produced(cur, p, buf)

\* default, code === DOLLAR_SIGN: without a span starting here nothing is
\* assigned, currentToken keeps the value of the previous call
ScanDollar(p, buf, cur) ==
    LET interpolation == FindAt(p)
    IN  IF interpolation # NoInterpolation
        THEN LET tok == <<"word", Slice(p, interpolation.end + 1), p,
                          interpolation.end>>
             IN  Produced(tok, interpolation.end, Append(buf, tok))
        ELSE Produced(cur, p, buf)

\* default, `/` followed by `*`
ScanComment(p, buf, permissive) ==
    LET found == IndexOfCommentEnd(p + 2) + 1
    IN  IF found = 0
        THEN IF permissive
             THEN Produced(<<"comment", Slice(p, length + 1), p, length>>,
                           length, buf)
             ELSE Unclosed("comment", p, buf)
        ELSE Produced(<<"comment", Slice(p, found + 1), p, found>>, found, buf)

\* the bare word without the STYLED PATCH: it ends at its natural end
ScanWordNoPatch(p, buf) ==
    LET M == {i \in (p + 1)..(length - 1) : WordEndAt(i)}
        next == IF M = {} THEN length - 1 ELSE Min(M) - 1
        tok == <<"word", Slice(p, next + 1), p, next>>
    IN  Produced(tok, next, Append(buf, tok))

\* default, bare word
ScanWord(p, buf) ==
    LET M == {i \in (p + 1)..(length - 1) : WordEndAt(i)}
        natural == IF M = {} THEN length - 1 ELSE Min(M) - 1
        interpolation == FindWithin(p, natural)
        next == IF interpolation # NoInterpolation
                THEN interpolation.end ELSE natural
        tok == <<"word", Slice(p, next + 1), p, next>>
    IN  Produced(tok, next, Append(buf, tok))

\* switch (code) of nextToken
Classify(p, buf, cur, permissive) ==
    LET code == CharAt(p)
    IN  CASE IsSpace(code) -> ScanSpace(p, buf)
          [] IsControl(code) -> ScanControl(p, buf)
          [] code = OPEN_PARENTHESES -> ScanParen(p, buf, permissive)
          [] code \in {SINGLE_QUOTE, DOUBLE_QUOTE} -> ScanQuote(p, buf, permissive)
          [] code = AT -> ScanAt(p, buf)
          [] code = BACKSLASH -> ScanBackslash(p, buf)
          [] code = DOLLAR_SIGN -> ScanDollar(p, buf, cur)
          [] code = SLASH /\ CharAt(p + 1) = ASTERISK ->
                 ScanComment(p, buf, permissive)
          [] OTHER -> ScanWord(p, buf)

(***************************************************************************)
(* Bounds and the bounded sets of constructor inputs.                      *)
(***************************************************************************)
MaxLen == 3
MaxPieces == 4
MaxWs == 3
MaxApiLen == 2
MaxSpans == 2
MaxReturned == 2
MaxHex == 7
MaxParen == 2

\* all sequences over A of length at most n
Strs(A, n) == UNION {[1..k -> A] : k \in 0..n}

RECURSIVE Concat(_)
Concat(ps) == IF ps = <<>> THEN <<>> ELSE Head(ps) \o Concat(Tail(ps))

Alphabet == {"a", SPACE, DOLLAR_SIGN, DOUBLE_QUOTE, OPEN_PARENTHESES,
             CLOSE_PARENTHESES, BACKSLASH, SLASH, ASTERISK, CLOSE_CURLY, AT}

Prefixes == {<<>>, <<"u", "r", "l">>, <<"u", "r", "l", "(">>}

\* short texts over the alphabet, bare or behind `url` / `url(`
GeneralInputs == {p \o s : p \in Prefixes, s \in Strs(Alphabet, MaxLen)}

Pieces == {<<"u", "r", "l", "(">>, <<")">>, <<"\"">>, <<"\\">>, <<"a">>,
           <<"$", ")", "}">>, <<"$", "\"", "}">>}

\* texts made of lexical fragments, among them interpolations holding a
\* closing parenthesis or a quote
PieceInputs == {Concat(ps) : ps \in Strs(Pieces, MaxPieces)}

\* whitespace-only texts
WsInputs == Strs({SPACE, NEWLINE, TAB, CR, FEED}, MaxWs)

HexDigits == {"9", "F"}

HexTails == {<<>>, <<" ">>, <<" ", "a">>, <<"u">>, <<"\n">>}

\* a backslash, a run of hexadecimal digits and what may follow the run
HexInputs ==
    {<<"\\">> \o h \o t : h \in Strs(HexDigits, MaxHex), t \in HexTails}

ParenAlphabet == {"a", SLASH, NEWLINE, CR, DOUBLE_QUOTE, SINGLE_QUOTE,
                  OPEN_PARENTHESES, BACKSLASH}

\* a parenthesis pair around the characters RE_BAD_BRACKET looks for,
\* bare or behind `url`
ParenInputs ==
    {p \o <<"(">> \o s \o <<")">> :
        p \in {<<>>, <<"u", "r", "l">>}, s \in Strs(ParenAlphabet, MaxParen)}

Inputs ==
    GeneralInputs \cup PieceInputs \cup WsInputs \cup HexInputs \cup ParenInputs

\* the shortest texts, for the specifications that interleave every
\* operation or carry fairness
ApiInputs ==
    Strs(Alphabet, MaxApiLen) \cup {Concat(ps) : ps \in Strs(Pieces, MaxApiLen)}

\* an interpolation is a `${...}` expression of the template literal: it
\* starts at a `$` and ends at a later `}` (both offsets inclusive)
Candidates(text) ==
    {[start |-> s, end |-> e] : s \in 0..(Len(text) - 1), e \in 0..(Len(text) - 1)}

ValidSpan(text, c) ==
    /\ c.start < c.end
    /\ text[c.start + 1] = DOLLAR_SIGN
    /\ text[c.end + 1] = CLOSE_CURLY

\* lists of at most n spans, in source order and not overlapping
RECURSIVE SpanLists(_, _, _)
SpanLists(text, lo, n) ==
    {<<>>} \cup
    (IF n = 0 THEN {}
     ELSE UNION {{<<c>> \o rest : rest \in SpanLists(text, c.end + 1, n - 1)} :
                 c \in {d \in Candidates(text) :
                           ValidSpan(text, d) /\ d.start >= lo}})

\* a token that a parser may hand to back() besides the one it just read
Synthetic == <<"word", <<"a">>, 0, 0>>

(***************************************************************************)
(* State after tokenizer(input, options) (tokenizer.js:39-73).  `call` is  *)
(* the record of the last completed API call; `out` and `driver` belong to *)
(* a consumer that calls nextToken() until end-of-stream: the texts it has *)
(* concatenated and whether it is "reading", "done" (it saw                *)
(* end-of-stream), "aborted" (it saw an exception) or "absent".            *)
(***************************************************************************)
NoCall == [op |-> "new", opt |-> FALSE, arg |-> Undefined, tok |-> Undefined,
           raised |-> NoError, before |-> 0, ran |-> FALSE, flag |-> FALSE,
           num |-> 0]

Construct(texts, drive) ==
    /\ css \in texts
    /\ interpolations \in SpanLists(css, 0, MaxSpans)
    /\ ignore \in BOOLEAN
    /\ pos = 0
    /\ buffer = <<>>
    /\ returned = <<>>
    /\ currentToken = Undefined
    /\ call = NoCall
    /\ out = <<>>
    /\ driver = drive

Init == Construct(ApiInputs, "absent")

InitScan == Construct(Inputs, "reading")

InitLive == Construct(ApiInputs, "reading")

(***************************************************************************)
(* The four operations of the returned object.                             *)
(***************************************************************************)
\* position()
Position == pos

\* endOfFile() that forgets the pushback stack
EndOfFileNoStack == pos >= length

\* endOfFile()
EndOfFile == Len(returned) = 0 /\ pos >= length

\* returned.shift() in place of returned.pop(): first-in-first-out
PopOldest(stack) == [tok |-> stack[1], rest |-> Tail(stack)]

\* returned.pop(): the popped token and the remaining stack
Pop(stack) == [tok |-> stack[Len(stack)],
               rest |-> SubSeq(stack, 1, Len(stack) - 1)]

\* the consumer appends the text of a returned token and stops at
\* end-of-stream or at an exception
Drive(tok, raised) ==
    /\ out' = IF driver = "reading" /\ raised = NoError /\ tok # Undefined
              THEN out \o tok[2] ELSE out
    /\ driver' = IF driver # "reading" THEN driver
                 ELSE IF raised # NoError THEN "aborted"
                 ELSE IF tok = Undefined THEN "done"
                 ELSE "reading"

\* nextToken(opts)
NextToken(ignoreUnclosed) ==
    IF Len(returned) > 0
    THEN /\ returned' = Pop(returned).rest
         /\ call' = [NoCall EXCEPT !.op = "nextToken", !.opt = ignoreUnclosed,
                                   !.tok = Pop(returned).tok, !.before = pos]
         /\ Drive(Pop(returned).tok, NoError)
         /\ UNCHANGED <<css, interpolations, ignore, pos, buffer, currentToken>>
    ELSE IF pos >= length
    THEN /\ call' = [NoCall EXCEPT !.op = "nextToken", !.opt = ignoreUnclosed,
                                   !.before = pos]
         /\ Drive(Undefined, NoError)
         /\ UNCHANGED <<css, interpolations, ignore, pos, buffer, returned,
                        currentToken>>
    ELSE LET r == Classify(pos, buffer, currentToken, ignore \/ ignoreUnclosed)
         IN  /\ buffer' = r.buffer
             /\ IF r.raised # NoError
                THEN UNCHANGED <<pos, currentToken>>
                ELSE pos' = r.next + 1 /\ currentToken' = r.tok
             /\ call' = [NoCall EXCEPT !.op = "nextToken",
                                       !.opt = ignoreUnclosed,
                                       !.tok = r.tok, !.raised = r.raised,
                                       !.before = pos, !.ran = TRUE]
             /\ Drive(r.tok, r.raised)
             /\ UNCHANGED <<css, interpolations, ignore, returned>>

NextTokenCall == \E ignoreUnclosed \in BOOLEAN : NextToken(ignoreUnclosed)

\* back(token) that also moves the cursor back to the start of the token
BackRewinding(token) ==
    /\ Len(returned) < MaxReturned
    /\ returned' = Append(returned, token)
    /\ pos' = IF Len(token) > 2 THEN token[3] ELSE pos
    /\ call' = [NoCall EXCEPT !.op = "back", !.arg = token, !.before = pos]
    /\ UNCHANGED <<css, interpolations, ignore, buffer, currentToken,
                   out, driver>>

\* back(token)
Back(token) ==
    /\ Len(returned) < MaxReturned
    /\ returned' = Append(returned, token)
    /\ call' = [NoCall EXCEPT !.op = "back", !.arg = token, !.before = pos]
    /\ UNCHANGED <<css, interpolations, ignore, pos, buffer, currentToken,
                   out, driver>>

BackCall ==
    \E token \in {Synthetic} \cup
                 (IF call.tok # Undefined THEN {call.tok} ELSE {}) : Back(token)

EndOfFileCall ==
    /\ call' = [NoCall EXCEPT !.op = "endOfFile", !.flag = EndOfFile,
                              !.before = pos]
    /\ UNCHANGED <<css, interpolations, ignore, pos, buffer, returned,
                   currentToken, out, driver>>

PositionCall ==
    /\ call' = [NoCall EXCEPT !.op = "position", !.num = Position,
                              !.before = pos]
    /\ UNCHANGED <<css, interpolations, ignore, pos, buffer, returned,
                   currentToken, out, driver>>

Next == NextTokenCall \/ BackCall \/ EndOfFileCall \/ PositionCall

Spec == Init /\ [][Next]_vars

\* a consumer that only reads tokens
SpecScan == InitScan /\ [][NextTokenCall]_vars

\* the consumer keeps calling nextToken()
SpecLive == InitLive /\ [][NextTokenCall]_vars /\ WF_vars(NextTokenCall)

(***************************************************************************)
(* Vocabulary of the properties, stated on the text and the call record.   *)
(***************************************************************************)
Whitespace == {" ", "\n", "\t", "\r", "\f"}
Quotes == {"'", "\""}

CountOf(c, k) == Cardinality({i \in 1..k : css[i] = c})

\* balanced quotes, parentheses and comments
Balanced ==
    /\ CountOf("\"", length) % 2 = 0
    /\ CountOf("'", length) % 2 = 0
    /\ \A k \in 0..length : CountOf("(", k) >= CountOf(")", k)
    /\ CountOf("(", length) = CountOf(")", length)
    /\ \A i \in 1..(length - 1) :
          css[i] = "/" /\ css[i + 1] = "*" =>
              \E j \in (i + 2)..(length - 1) : css[j] = "*" /\ css[j + 1] = "/"

\* the last call was nextToken() and it ran the classifier to a token or to
\* `undefined` (it did not throw)
Classified == call.op = "nextToken" /\ call.ran /\ call.raised = NoError

\* the last call was nextToken() and it signalled end-of-stream
EndOfStream ==
    call.op = "nextToken" /\ call.raised = NoError /\ call.tok = Undefined

\* C1: on balanced input, the texts of the tokens returned up to
\* end-of-stream, concatenated in call order, are the source text.
C1_Concatenation == (Balanced /\ driver = "done") => out = css

\* C2: a nextToken() call that runs the classifier returns a token whose
\* text starts with the character at the cursor; never undefined, never the
\* token of an earlier call.
C2_FreshToken ==
    Classified =>
        /\ call.tok # Undefined
        /\ Head(call.tok[2]) = CharAt(call.before)

\* C3: a nextToken() call on a non-empty pushback stack returns the token
\* pushed last, removes only it, and leaves cursor, classifier token and
\* recent-word buffer alone; right after back(t) it returns t with the
\* cursor where it was before back(t).
C3_PushbackRoundTrip ==
    [][(call'.op = "nextToken" /\ Len(returned) > 0) =>
          /\ call'.tok = returned[Len(returned)]
          /\ returned' = SubSeq(returned, 1, Len(returned) - 1)
          /\ ~call'.ran
          /\ pos' = pos /\ buffer' = buffer /\ currentToken' = currentToken
          /\ (call.op = "back" => call'.tok = call.arg /\ pos' = call.before)]_vars

\* two tokens were pushed back before the end of input and the younger one
\* has been read again
C3_Witness ==
    /\ call.op = "nextToken" /\ ~call.ran /\ call.tok # Undefined
    /\ Len(returned) = 1 /\ returned[1] # call.tok
    /\ pos > 0 /\ pos < length

\* C4: endOfFile() is true exactly when the pushback stack is empty and the
\* cursor is at or past the length; it changes nothing, and a second call
\* right after it gives the same answer.
C4_EndOfFile ==
    [][call'.op = "endOfFile" =>
          /\ call'.flag = (returned = <<>> /\ pos >= Len(css))
          /\ UNCHANGED <<css, interpolations, ignore, pos, buffer, returned,
                         currentToken>>
          /\ (call.op = "endOfFile" => call'.flag = call.flag)]_vars

\* endOfFile() answered false at the end of the text because of a
\* pushed-back token
C4_Witness ==
    call.op = "endOfFile" /\ ~call.flag /\ pos >= length /\ returned # <<>>

\* number of consecutive backslashes right before offset i
BackslashesBefore(i) ==
    CHOOSE k \in 0..i :
        /\ \A j \in 1..k : CharAt(i - j) = "\\"
        /\ CharAt(i - k - 1) # "\\"

\* no occurrence of c after offset p is preceded by an even run of backslashes
NoUnescaped(c, p) ==
    \A i \in (p + 1)..(length - 1) :
        css[i + 1] = c => BackslashesBefore(i) % 2 = 1

\* the `(` at offset p opens a raw-URL body: the word recorded last is `url`
\* and the next character is neither a quote nor whitespace
RawUrlAt(p) ==
    /\ CharAt(p) = "("
    /\ buffer # <<>> /\ buffer[Len(buffer)][2] = <<"u", "r", "l">>
    /\ CharAt(p + 1) \notin Quotes \cup Whitespace

\* the construct opening at offset p that has no terminator, if any
UnclosedAt(p) ==
    IF CharAt(p) \in Quotes /\ NoUnescaped(CharAt(p), p) THEN "string"
    ELSE IF /\ CharAt(p) = "/" /\ CharAt(p + 1) = "*"
            /\ ~\E j \in (p + 2)..(length - 2) :
                   css[j + 1] = "*" /\ css[j + 2] = "/" THEN "comment"
    ELSE IF RawUrlAt(p) /\ NoUnescaped(")", p) THEN "bracket"
    ELSE "none"

DegradedKind(what) ==
    CASE what = "string" -> "string"
      [] what = "comment" -> "comment"
      [] what = "bracket" -> "brackets"

\* the cursor is at the end and nextToken() said so
AtEnd ==
    /\ call.op = "nextToken" /\ ~call.ran /\ call.tok = Undefined
    /\ returned = <<>> /\ pos >= length

C6_Unclosed ==
    [][call'.op = "nextToken" =>
          LET permissive == ignore \/ call'.opt
              what == UnclosedAt(pos)
          IN  /\ (call'.ran /\ ~permissive /\ what # "none") =>
                     call'.raised = <<what, pos>>
              /\ permissive =>
                     /\ call'.raised = NoError
                     /\ (call'.ran /\ what # "none") =>
                            /\ call'.tok # Undefined
                            /\ call'.tok[1] = DegradedKind(what)
                            /\ call'.tok[3] = pos]_vars

\* an unclosed raw-URL body was reported at its `(`
C6_Witness ==
    /\ call.raised = <<"bracket", pos>>
    /\ pos > 0 /\ CharAt(pos) = "("

\* offset e lies inside some interpolation span
InsideSpan(e) ==
    \E k \in 1..Len(interpolations) :
        interpolations[k].start <= e /\ e <= interpolations[k].end

\* C7: the `)` that ends a raw-URL brackets token never lies inside an
\* interpolation span.
C7_NoCloseInsideSpan ==
    [][(/\ call'.op = "nextToken" /\ call'.ran /\ call'.raised = NoError
        /\ RawUrlAt(pos) /\ call'.tok[4] > pos) =>
           ~InsideSpan(call'.tok[4])]_vars

\* C8: the quote that ends a string token never lies inside an
\* interpolation span.
C8_NoQuoteInsideSpan ==
    [][(/\ call'.op = "nextToken" /\ call'.ran /\ call'.raised = NoError
        /\ CharAt(pos) \in Quotes
        /\ call'.tok[4] > pos /\ CharAt(call'.tok[4]) = CharAt(pos)) =>
           ~InsideSpan(call'.tok[4])]_vars

\* the span that starts at offset p (spans do not overlap)
SpanAt(p) ==
    CHOOSE sp \in {interpolations[k] : k \in 1..Len(interpolations)} :
        sp.start = p

\* C9: a classifier run with the cursor at the start of a span returns one
\* word token from the span's start to its end, records it as the most
\* recent word and leaves the cursor right after the span.
C9_SpanIsOneToken ==
    [][(/\ call'.op = "nextToken" /\ call'.ran
        /\ \E k \in 1..Len(interpolations) : interpolations[k].start = pos) =>
           LET sp == SpanAt(pos)
               tok == <<"word", SubSeq(css, sp.start + 1, sp.end + 1),
                        sp.start, sp.end>>
           IN  /\ call'.raised = NoError
               /\ call'.tok = tok
               /\ pos' = sp.end + 1
               /\ buffer' = Append(buffer, tok)]_vars

\* a span that is not at the start of the text was returned as one word
C9_Witness ==
    /\ Classified /\ call.before > 0
    /\ \E k \in 1..Len(interpolations) :
          /\ interpolations[k].start = call.before
          /\ call.tok = <<"word", SubSeq(css, call.before + 1, pos),
                          call.before, pos - 1>>
          /\ interpolations[k].end = pos - 1

\* C10: a space token is the maximal whitespace run at the cursor; on a
\* non-empty whitespace-only text the first call returns the whole text as
\* one space token and every later call returns end-of-stream.
C10_WhitespaceRun ==
    /\ (Classified /\ CharAt(call.before) \in Whitespace) =>
          /\ call.tok = <<"space", SubSeq(css, call.before + 1, pos)>>
          /\ \A i \in call.before..(pos - 1) : CharAt(i) \in Whitespace
          /\ CharAt(pos) \notin Whitespace
    /\ (/\ css # <<>> /\ \A i \in 1..Len(css) : css[i] \in Whitespace
        /\ call.op = "nextToken") =>
          IF call.before = 0
          THEN call.tok = <<"space", css>> /\ pos = Len(css)
          ELSE call.tok = Undefined /\ ~call.ran /\ pos = Len(css)

\* a text of three different whitespace characters was read to the end
C10_Witness ==
    /\ Len(css) = 3 /\ \A i \in 1..3 : css[i] \in Whitespace
    /\ css[1] # css[2] /\ css[2] # css[3] /\ css[1] # css[3]
    /\ call.op = "nextToken" /\ call.before = 3 /\ call.tok = Undefined

\* C11: back(), endOfFile() and position() leave the cursor alone,
\* nextToken() moves it only when it runs the classifier (empty pushback
\* stack, cursor before the end), and position() reports the cursor also
\* while a token is pushed back.
C11_Frame ==
    [][/\ (call'.op \in {"back", "endOfFile", "position"} => pos' = pos)
       /\ (call'.op = "nextToken" /\ pos' # pos) =>
              (returned = <<>> /\ pos < Len(css) /\ call'.ran)
       /\ (call'.op = "position" => call'.num = pos)]_vars

\* position() was asked while a token that starts before the cursor is
\* pushed back
C11_Witness ==
    /\ call.op = "position" /\ call.num = pos /\ pos > 0
    /\ returned # <<>> /\ Len(returned[Len(returned)]) > 2
    /\ returned[Len(returned)][3] < pos

\* C12: a returned token with start and end has 0 <= start <= end <=
\* length - 1 and its text is the source from start to end inclusive.
C12_Offsets ==
    (Classified /\ call.tok # Undefined /\ Len(call.tok) = 4) =>
        /\ 0 <= call.tok[3] /\ call.tok[3] <= call.tok[4]
        /\ call.tok[4] <= Len(css) - 1
        /\ call.tok[2] = SubSeq(css, call.tok[3] + 1, call.tok[4] + 1)
        /\ Len(call.tok[2]) = call.tok[4] - call.tok[3] + 1

\* C13: a `(` is scanned as a raw-URL body (it throws Unclosed bracket, or
\* degrades to a brackets token of the `(` alone) only if the token
\* produced immediately before it is the word `url` ending at the `(`.
C13_UrlWordAdjacent ==
    [][(/\ call'.op = "nextToken" /\ call'.ran /\ CharAt(pos) = "("
        /\ \/ call'.raised = <<"bracket", pos>>
           \/ /\ call'.raised = NoError
              /\ call'.tok[1] = "brackets" /\ call'.tok[4] = pos) =>
           currentToken = <<"word", <<"u", "r", "l">>, pos - 3, pos - 1>>]_vars

\* C14: a nextToken() call that throws leaves cursor, pushback stack and
\* recent-word buffer as they were before the call.
C14_ThrowKeepsState ==
    [][(call'.op = "nextToken" /\ call'.raised # NoError) =>
          (pos' = pos /\ returned' = returned /\ buffer' = buffer)]_vars

\* the last call returned a token for a quote at the cursor that has no
\* unescaped closing quote (a permissive call, or it would have thrown)
DegradedString ==
    /\ Classified /\ CharAt(call.before) \in Quotes
    /\ NoUnescaped(CharAt(call.before), call.before)

HexChars == {"0", "1", "2", "3", "4", "5", "6", "7", "8", "9",
             "a", "b", "c", "d", "e", "f", "A", "B", "C", "D", "E", "F"}

\* C16: the word token of a backslash followed by a hexadecimal digit holds
\* at most 6 hexadecimal digits after the backslash and then at most one
\* whitespace character.
C16_SixHexDigits ==
    (/\ Classified /\ CharAt(call.before) = "\\"
     /\ CharAt(call.before + 1) \in HexChars) =>
        /\ Len(call.tok[2]) <= 8
        /\ \A i \in 1..Len(call.tok[2]) :
              i >= 8 => call.tok[2][i] \in Whitespace

\* offsets of the `)` after offset p
ClosesAfter(p) == {i \in (p + 1)..(Len(css) - 1) : css[i + 1] = ")"}

FirstCloseAfter(p) ==
    CHOOSE c \in ClosesAfter(p) : \A d \in ClosesAfter(p) : c <= d

\* what a `(` outside raw-URL mode must yield when `whole` says that the
\* parenthesis pair is one token
BracketsOutcome(whole) ==
    IF whole
    THEN LET c == FirstCloseAfter(pos)
         IN  /\ call'.raised = NoError
             /\ call'.tok = <<"brackets", SubSeq(css, pos + 1, c + 1), pos, c>>
             /\ pos' = c + 1
    ELSE /\ call'.raised = NoError
         /\ call'.tok = <<"(", <<"(">>, pos>>
         /\ pos' = pos + 1

\* a nextToken() step that scans a `(` outside raw-URL mode
NormalParenStep ==
    call'.op = "nextToken" /\ call'.ran /\ CharAt(pos) = "(" /\ ~RawUrlAt(pos)

Unescaped(c, p) ==
    {i \in (p + 1)..(Len(css) - 1) :
        css[i + 1] = c /\ BackslashesBefore(i) % 2 = 0}

FirstUnescaped(c, p) ==
    CHOOSE i \in Unescaped(c, p) : \A j \in Unescaped(c, p) : i <= j

\* a nextToken() step that returns the token of a quote or of a raw-URL `(`
TerminatedStep ==
    /\ call'.op = "nextToken" /\ call'.ran /\ call'.raised = NoError
    /\ CharAt(pos) \in Quotes \/ RawUrlAt(pos)

\* the character that ends the construct opening at offset p
Terminator(p) == IF CharAt(p) = "(" THEN ")" ELSE CharAt(p)

\* a token that ends at its terminator ends at one with an even run of
\* backslashes before it
EvenRunAtEnd ==
    (call'.tok[4] > pos /\ CharAt(call'.tok[4]) = Terminator(pos)) =>
        BackslashesBefore(call'.tok[4]) % 2 = 0

\* C18 as stated: a string token and a raw-URL brackets token end at the
\* first terminator preceded by an even run of backslashes; one preceded
\* by an odd run never ends the token.
C18_FirstEvenRun ==
    [][TerminatedStep =>
          /\ EvenRunAtEnd
          /\ Unescaped(Terminator(pos), pos) # {} =>
                 call'.tok[4] = FirstUnescaped(Terminator(pos), pos)]_vars

\* C18 amended: as stated for strings; a raw-URL brackets token ends at
\* the first `)` preceded by an even run of backslashes when that `)` is
\* not inside an interpolation span.
C18_FirstEvenRunOutsideSpans ==
    [][TerminatedStep =>
          /\ EvenRunAtEnd
          /\ (/\ Unescaped(Terminator(pos), pos) # {}
              /\ \/ CharAt(pos) \in Quotes
                 \/ ~InsideSpan(FirstUnescaped(")", pos))) =>
                 call'.tok[4] = FirstUnescaped(Terminator(pos), pos)]_vars

\* a string ended at a quote behind two backslashes
C18_Witness ==
    /\ Classified /\ CharAt(call.before) \in Quotes
    /\ call.tok[1] = "string" /\ call.tok[4] = pos - 1
    /\ CharAt(call.tok[4]) = CharAt(call.before)
    /\ BackslashesBefore(call.tok[4]) = 2

\* offset i holds a character that ends a bare word
Terminates(i) ==
    \/ CharAt(i) \in {"\t", "\n", "\f", "\r", " ", "!", "\"", "#", "'", "(",
                      ")", ":", ";", "@", "[", "\\", "]", "{", "}"}
    \/ CharAt(i) = "/" /\ CharAt(i + 1) = "*"

\* last offset of the bare word at p up to its terminator or the end
NaturalEnd(p) ==
    CHOOSE e \in p..(Len(css) - 1) :
        /\ \A i \in (p + 1)..e : ~Terminates(i)
        /\ e = Len(css) - 1 \/ Terminates(e + 1)

\* a nextToken() step that scans a bare word
BareWordStep ==
    /\ call'.op = "nextToken" /\ call'.ran
    /\ CharAt(pos) \notin Whitespace \cup Quotes \cup
                          {"[", "]", "{", "}", ":", ";", ")", "(", "@",
                           "\\", "$"}
    /\ ~(CharAt(pos) = "/" /\ CharAt(pos + 1) = "*")

\* spans whose start lies in [p, e + 1]
SpansFrom(p, e) ==
    {k \in 1..Len(interpolations) :
        p <= interpolations[k].start /\ interpolations[k].start <= e + 1}

\* C19: a bare word whose range [cursor, candidate end + 1] holds the start
\* of a span ends at that span's end, never before its natural end; without
\* such a span it ends at its natural end.
C19_WordExtension ==
    [][BareWordStep =>
          LET e == NaturalEnd(pos)
              end == call'.tok[4]
          IN  /\ call'.raised = NoError
              /\ call'.tok = <<"word", SubSeq(css, pos + 1, end + 1), pos, end>>
              /\ pos' = end + 1
              /\ IF SpansFrom(pos, e) # {}
                 THEN \A k \in SpansFrom(pos, e) :
                         end = interpolations[k].end /\ end >= e
                 ELSE end = e]_vars

\* a one-letter word directly followed by a span was returned as one token
\* that ends at the span's end, past the natural end of the word
C19_Witness ==
    /\ Classified /\ call.tok # Undefined /\ call.tok[1] = "word"
    /\ CharAt(call.before) = "a" /\ call.tok[3] = call.before
    /\ \E k \in 1..Len(interpolations) :
          /\ interpolations[k].start = call.before + 1
          /\ interpolations[k].end = call.tok[4]
          /\ call.tok[4] > NaturalEnd(call.before)

====
